---- MODULE Spec2Model ----
(***************************************************************************)
(* BaseNumpyIndexer (jina/executors/indexers/vector/__init__.py): an       *)
(* append-only store of fixed-width numeric vectors in a gzip file, with   *)
(* the keys kept in memory as raw bytes.  Arrays are modelled as numpy     *)
(* holds them: a shape, an element type and a flat row-major buffer; bytes *)
(* are produced by tobytes and read back by frombuffer and reshape.        *)
(***************************************************************************)
EXTENDS Integers, Sequences, FiniteSets, TLC

\* ---------------------------------------------------------------- bounds
MaxAdds == 2    \* successful add calls in one behaviour

\* ------------------------------------------------------- numpy, modelled
DTypes == {"uint8", "uint16"}

ItemSize(dt) == IF dt = "uint8" THEN 1 ELSE 2

\* the values a batch is filled with, per element type
ValueOf(dt, i) ==
    IF dt = "uint8" THEN (i % 3) + 1 ELSE 256 * ((i % 3) + 1) + ((i + 1) % 3) + 1

RECURSIVE Prod(_)
Prod(s) == IF s = <<>> THEN 1 ELSE Head(s) * Prod(Tail(s))

\* an ndarray: shape, dtype name, flat row-major data
MkArray(shape, dt, seed) ==
    [shape |-> shape, dtype |-> dt,
     data  |-> [i \in 1..Prod(shape) |-> ValueOf(dt, seed + i)]]

\* Python's None where an array is expected
NoneArr == [shape |-> <<>>, dtype |-> "None", data |-> <<>>]

IsNone(a) == a.dtype = "None"

Ndim(a) == Len(a.shape)

\* numpy's shape[0], shape[1] (TLA+ sequences start at 1)
Shape0(a) == a.shape[1]
Shape1(a) == a.shape[2]

\* one element as bytes, native (little-endian) order
ElemBytes(dt, v) == IF ItemSize(dt) = 1 THEN <<v>> ELSE <<v % 256, v \div 256>>

RECURSIVE Concat(_)
Concat(ss) == IF ss = <<>> THEN <<>> ELSE Head(ss) \o Concat(Tail(ss))

\* ndarray.tobytes()
ToBytes(a) == Concat([i \in 1..Len(a.data) |-> ElemBytes(a.dtype, a.data[i])])

\* np.frombuffer raises ValueError unless the size is a multiple of the item size
FromBufferOk(bytes, dt) == Len(bytes) % ItemSize(dt) = 0

\* np.frombuffer(bytes, dtype=dt): a 1-D array
FromBuffer(bytes, dt) ==
    LET n == Len(bytes) \div ItemSize(dt)
    IN  [shape |-> <<n>>, dtype |-> dt,
         data  |-> [i \in 1..n |->
                      IF ItemSize(dt) = 1 THEN bytes[i]
                      ELSE bytes[2 * i - 1] + 256 * bytes[2 * i]]]

\* a.reshape([-1, d]) for d > 0 raises ValueError unless d divides the size
ReshapeOk(a, d) == Len(a.data) % d = 0

Reshape(a, d) == [a EXCEPT !.shape = <<Len(a.data) \div d, d>>]

\* row i (from 1) of a rank-2 array
Row(a, i) == SubSeq(a.data, (i - 1) * Shape1(a) + 1, i * Shape1(a))

\* --------------------------------------------------------------- inputs
\* the row counts and the widths of the batches handed to add; a zero-width
\* batch is 1 x 0
RowCounts == {0, 1}
Dims == {1, 2}

\* a batch is filled from a position that moves with the batches already added
Rank2Inputs(seed) ==
    { MkArray(<<n, d>>, dt, seed) : n \in RowCounts, d \in Dims, dt \in DTypes }
    \cup { MkArray(<<1, 0>>, dt, seed) : dt \in DTypes }

\* batches of rank 1 and rank 3
OtherRankInputs(seed) ==
    { MkArray(<<1>>, "uint8", seed), MkArray(<<1, 1, 1>>, "uint8", seed) }

KeyInputs(seed) == { MkArray(<<n>>, dt, seed) : n \in RowCounts, dt \in DTypes }

\* what the file at index_abspath may hold before the instance is built
InitFiles == { <<7>> }

\* ---------------------------------------------------------------- state
VARIABLES
    num_dim,        \* <<>> for None, <<d>> once set
    dtype,          \* "None" or a dtype name
    key_bytes,      \* bytes
    key_dtype,      \* "None" or a dtype name
    _size,          \* the running count kept by the parent executor
    int2ext_key,    \* NoneArr or a 1-D array
    file_exists,    \* path.exists(index_abspath)
    file_data,      \* decompressed content of the closed gzip members on disk
    write_handler,  \* "closed" or "open"
    pending,        \* bytes written to the open gzip stream, not yet closed
    op,             \* the last operation
    exc,            \* the exception type it raised, or "none"
    cause,          \* which check raised it
    vecs,           \* what _load_gzip returned to the last load or materialize
    result,         \* what the last load or materialize returned
    log,            \* logger messages of the last operation, above info
    hook_arg,       \* the array the last operation gave build_advanced_index
    hist,           \* the successful add calls in order: <<rows, keys, width>> of each
                    \* batch, all the elements and all the keys they appended,
                    \* and the widths, element types and key types they had
    pure            \* the file holds the bytes of those batches and no others

store == <<num_dim, dtype, key_bytes, key_dtype, _size, int2ext_key>>
disk  == <<file_exists, file_data, write_handler, pending>>
obs   == <<op, exc, cause, vecs, result, log, hook_arg>>
ghost == <<hist, pure>>
vars  == <<store, disk, obs, ghost>>

\* Python truthiness of self.num_dim
Truthy(nd) == nd # <<>> /\ nd[1] # 0

\* the fields the parent executor's constructor leaves to this class
ParentInit ==
    /\ _size = 0
    /\ int2ext_key = NoneArr

Init ==
    /\ ParentInit
    /\ num_dim = <<>>
    /\ dtype = "None"
    /\ key_bytes = <<>>
    /\ key_dtype = "None"
    /\ \/ file_exists = FALSE /\ file_data = <<>>
       \/ file_exists = TRUE /\ file_data \in InitFiles
    /\ write_handler = "closed"
    /\ pending = <<>>
    /\ op = "init" /\ exc = "none" /\ cause = "none"
    /\ vecs = NoneArr /\ result = NoneArr /\ log = {} /\ hook_arg = NoneArr
    /\ hist = [shape |-> <<>>, vecs |-> <<>>, keys |-> <<>>,
               dims |-> {}, dtypes |-> {}, kdtypes |-> {}]
    /\ pure = (file_data = <<>>)

\* ------------------------------------------------------------- handlers
\* gzip.open(index_abspath, 'ab'): a new member after what the file holds
get_add_handler ==
    /\ write_handler = "closed"
    /\ write_handler' = "open"
    /\ file_exists' = TRUE
    /\ pending' = <<>>
    /\ op' = "get_add_handler" /\ exc' = "none" /\ cause' = "none" /\ log' = {}
    /\ vecs' = NoneArr /\ result' = NoneArr /\ hook_arg' = NoneArr
    /\ UNCHANGED <<store, file_data, ghost>>

\* gzip.open(index_abspath, 'wb'): the file is truncated
get_create_handler ==
    /\ write_handler = "closed"
    /\ write_handler' = "open"
    /\ file_exists' = TRUE
    /\ file_data' = <<>>
    /\ pending' = <<>>
    /\ pure' = (hist.shape = <<>>)
    /\ op' = "get_create_handler" /\ exc' = "none" /\ cause' = "none" /\ log' = {}
    /\ vecs' = NoneArr /\ result' = NoneArr /\ hook_arg' = NoneArr
    /\ UNCHANGED <<store, hist>>

\* the owner closes the write session: the member is completed on disk
close ==
    /\ write_handler = "open"
    /\ write_handler' = "closed"
    /\ file_data' = file_data \o pending
    /\ pending' = <<>>
    /\ op' = "close" /\ exc' = "none" /\ cause' = "none" /\ log' = {}
    /\ vecs' = NoneArr /\ result' = NoneArr /\ hook_arg' = NoneArr
    /\ UNCHANGED <<store, file_exists, ghost>>

\* ------------------------------------------------------------------ add
\* the checks of add with one exception type for every check
ValidateOneType(keys, vectors) ==
    IF Ndim(vectors) # 2 THEN <<"ValueError", "rank">>
    ELSE IF ~Truthy(num_dim) THEN <<"none", "none">>
    ELSE IF num_dim[1] # Shape1(vectors) THEN <<"ValueError", "dim">>
    ELSE IF dtype # vectors.dtype THEN <<"ValueError", "dtype">>
    ELSE IF Shape0(keys) # Shape0(vectors) THEN <<"ValueError", "count">>
    ELSE IF key_dtype # keys.dtype THEN <<"ValueError", "key_dtype">>
    ELSE <<"none", "none">>

\* the checks of add, in the order of the code: <<exception type, check>>
Validate(keys, vectors) ==
    IF Ndim(vectors) # 2 THEN <<"ValueError", "rank">>
    ELSE IF ~Truthy(num_dim) THEN <<"none", "none">>
    ELSE IF num_dim[1] # Shape1(vectors) THEN <<"ValueError", "dim">>
    ELSE IF dtype # vectors.dtype THEN <<"TypeError", "dtype">>
    ELSE IF Shape0(keys) # Shape0(vectors) THEN <<"ValueError", "count">>
    ELSE IF key_dtype # keys.dtype THEN <<"TypeError", "key_dtype">>
    ELSE <<"none", "none">>

\* the schema after the first branch of add
SchemaAfter(vectors) ==
    IF ~Truthy(num_dim) THEN <<<<Shape1(vectors)>>, vectors.dtype>> ELSE <<num_dim, dtype>>

\* the write of an add that counts the rows of vectors into _size
AddWriteCountsRows(keys, vectors) ==
    /\ num_dim' = SchemaAfter(vectors)[1]
    /\ dtype' = SchemaAfter(vectors)[2]
    /\ pending' = pending \o ToBytes(vectors)
    /\ key_bytes' = key_bytes \o ToBytes(keys)
    /\ key_dtype' = keys.dtype
    /\ _size' = _size + Shape0(vectors)

\* the effect of an add that passed the checks
AddWrite(keys, vectors) ==
    /\ num_dim' = SchemaAfter(vectors)[1]
    /\ dtype' = SchemaAfter(vectors)[2]
    /\ pending' = pending \o ToBytes(vectors)
    /\ key_bytes' = key_bytes \o ToBytes(keys)
    /\ key_dtype' = keys.dtype
    /\ _size' = _size + Shape0(keys)

\* a write of the batch ahead of the checks
AddRaiseAfterWrite(keys, vectors) ==
    /\ pending' = pending \o ToBytes(vectors)
    /\ UNCHANGED <<num_dim, dtype, key_bytes, key_dtype, _size>>

\* the effect of an add that raised: every raise precedes the write
AddRaise(keys, vectors) == UNCHANGED <<num_dim, dtype, pending, key_bytes, key_dtype, _size>>

add(keys, vectors) ==
    LET v == Validate(keys, vectors) IN
    /\ op' = "add" /\ exc' = v[1] /\ cause' = v[2] /\ log' = {}
    /\ IF v[1] = "none"
       THEN /\ write_handler = "open"
            /\ Len(hist.shape) < MaxAdds
            /\ AddWrite(keys, vectors)
            /\ hist' = [shape   |-> Append(hist.shape, <<Shape0(vectors), Shape0(keys), Shape1(vectors)>>),
                         vecs    |-> hist.vecs \o vectors.data,
                         keys    |-> hist.keys \o keys.data,
                         dims    |-> hist.dims \cup {Shape1(vectors)},
                         dtypes  |-> hist.dtypes \cup {vectors.dtype},
                         kdtypes |-> hist.kdtypes \cup {keys.dtype}]
       ELSE /\ AddRaise(keys, vectors)
            /\ UNCHANGED hist
    /\ vecs' = NoneArr /\ result' = NoneArr /\ hook_arg' = NoneArr
    /\ UNCHANGED <<int2ext_key, file_exists, file_data, write_handler, pure>>

\* ----------------------------------------------------------------- load
\* _load_gzip without the os.path.exists test: with the shape unset nothing is
\* opened and nothing logged, otherwise gzip.open raises on the missing file
LoadGzipNoExistsCheck(partial) ==
    IF ~(Truthy(num_dim) /\ dtype # "None")
    THEN [res |-> NoneArr, exc |-> "none", cause |-> "none", log |-> {}]
    ELSE IF ~file_exists
    THEN [res |-> NoneArr, exc |-> "FileNotFoundError", cause |-> "open", log |-> {}]
    ELSE IF partial
    THEN [res |-> NoneArr, exc |-> "none", cause |-> "none", log |-> {"error: broken"}]
    ELSE IF ~FromBufferOk(file_data, dtype)
    THEN [res |-> NoneArr, exc |-> "ValueError", cause |-> "frombuffer", log |-> {}]
    ELSE IF ~ReshapeOk(FromBuffer(file_data, dtype), num_dim[1])
    THEN [res |-> NoneArr, exc |-> "ValueError", cause |-> "reshape", log |-> {}]
    ELSE [res |-> Reshape(FromBuffer(file_data, dtype), num_dim[1]),
          exc |-> "none", cause |-> "none", log |-> {}]

\* _load_gzip without the test of num_dim and dtype: the file is read whatever
\* the shape, and np.frombuffer(..., dtype=None).reshape([-1, None]) raises
LoadGzipNoSchemaGuard(partial) ==
    IF ~file_exists
    THEN [res |-> NoneArr, exc |-> "none", cause |-> "none", log |-> {"warning: not found"}]
    ELSE IF partial
    THEN [res |-> NoneArr, exc |-> "none", cause |-> "none", log |-> {"error: broken"}]
    ELSE IF ~(Truthy(num_dim) /\ dtype # "None")
    THEN [res |-> NoneArr, exc |-> "TypeError", cause |-> "reshape", log |-> {}]
    ELSE IF ~FromBufferOk(file_data, dtype)
    THEN [res |-> NoneArr, exc |-> "ValueError", cause |-> "frombuffer", log |-> {}]
    ELSE IF ~ReshapeOk(FromBuffer(file_data, dtype), num_dim[1])
    THEN [res |-> NoneArr, exc |-> "ValueError", cause |-> "reshape", log |-> {}]
    ELSE [res |-> Reshape(FromBuffer(file_data, dtype), num_dim[1]),
          exc |-> "none", cause |-> "none", log |-> {}]

\* _load_gzip(index_abspath); partial: part of the open member has reached
\* the disk, so the stream ends before its end-of-stream marker
LoadGzip(partial) ==
    IF ~file_exists
    THEN [res |-> NoneArr, exc |-> "none", cause |-> "none", log |-> {"warning: not found"}]
    ELSE IF ~(Truthy(num_dim) /\ dtype # "None")
    THEN [res |-> NoneArr, exc |-> "none", cause |-> "none", log |-> {}]
    ELSE IF partial
    THEN [res |-> NoneArr, exc |-> "none", cause |-> "none", log |-> {"error: broken"}]
    ELSE IF ~FromBufferOk(file_data, dtype)
    THEN [res |-> NoneArr, exc |-> "ValueError", cause |-> "frombuffer", log |-> {}]
    ELSE IF ~ReshapeOk(FromBuffer(file_data, dtype), num_dim[1])
    THEN [res |-> NoneArr, exc |-> "ValueError", cause |-> "reshape", log |-> {}]
    ELSE [res |-> Reshape(FromBuffer(file_data, dtype), num_dim[1]),
          exc |-> "none", cause |-> "none", log |-> {}]

\* what a reader of the file can meet: an open stream that was written to may
\* or may not have flushed part of its member
Partials == IF write_handler = "open" /\ pending # <<>> THEN {FALSE, TRUE} ELSE {FALSE}

load ==
    \E partial \in Partials :
        LET r == LoadGzip(partial) IN
        /\ op' = "load" /\ exc' = r.exc /\ cause' = r.cause /\ log' = r.log
        /\ vecs' = r.res
        /\ result' = r.res
        /\ hook_arg' = NoneArr
        /\ UNCHANGED <<store, disk, ghost>>

\* ---------------------------------------------------------- raw_ndarray
\* the key table after the frombuffer of raw_ndarray
KeyTable == IF key_bytes # <<>> /\ key_dtype # "None"
            THEN FromBuffer(key_bytes, key_dtype) ELSE int2ext_key

KeyTableOk == (key_bytes # <<>> /\ key_dtype # "None") => FromBufferOk(key_bytes, key_dtype)

\* raw_ndarray without the comparison of the two lengths
ReconcileUnchecked(r) ==
    IF r.exc # "none" \/ IsNone(r.res)
    THEN [res |-> r.res, exc |-> r.exc, cause |-> r.cause, log |-> r.log, keys |-> int2ext_key]
    ELSE IF ~KeyTableOk
    THEN [res |-> NoneArr, exc |-> "ValueError", cause |-> "frombuffer keys", log |-> r.log,
          keys |-> int2ext_key]
    ELSE IF ~IsNone(KeyTable) /\ Ndim(r.res) = 2
    THEN [res |-> r.res, exc |-> "none", cause |-> "none",
          log |-> r.log \cup (IF Shape0(r.res) = 0 THEN {"warning: empty"} ELSE {}),
          keys |-> KeyTable]
    ELSE [res |-> NoneArr, exc |-> "none", cause |-> "none", log |-> r.log, keys |-> KeyTable]

\* raw_ndarray after _load_gzip returned r
Reconcile(r) ==
    IF r.exc # "none" \/ IsNone(r.res)
    THEN [res |-> r.res, exc |-> r.exc, cause |-> r.cause, log |-> r.log, keys |-> int2ext_key]
    ELSE IF ~KeyTableOk
    THEN [res |-> NoneArr, exc |-> "ValueError", cause |-> "frombuffer keys", log |-> r.log,
          keys |-> int2ext_key]
    ELSE IF ~IsNone(KeyTable) /\ Ndim(r.res) = 2
    THEN IF Shape0(KeyTable) # Shape0(r.res)
         THEN [res |-> NoneArr, exc |-> "none", cause |-> "none",
               log |-> r.log \cup {"error: inconsistent"}, keys |-> KeyTable]
         ELSE [res |-> r.res, exc |-> "none", cause |-> "none",
               log |-> r.log \cup (IF Shape0(r.res) = 0 THEN {"warning: empty"} ELSE {}),
               keys |-> KeyTable]
    ELSE [res |-> NoneArr, exc |-> "none", cause |-> "none", log |-> r.log, keys |-> KeyTable]

raw_ndarray ==
    \E partial \in Partials :
        LET r == LoadGzip(partial)
            m == Reconcile(r) IN
        /\ op' = "raw_ndarray" /\ exc' = m.exc /\ cause' = m.cause /\ log' = m.log
        /\ vecs' = r.res
        /\ result' = m.res
        /\ hook_arg' = NoneArr
        /\ int2ext_key' = m.keys
        /\ UNCHANGED <<num_dim, dtype, key_bytes, key_dtype, _size, disk, ghost>>

\* ---------------------------------------------------- get_query_handler
\* the hook called with what _load_gzip returned, not with raw_ndarray
HookArgUnreconciled(r, m) == r.res

\* what get_query_handler hands to build_advanced_index after _load_gzip
\* returned r and raw_ndarray returned m: NoneArr when the hook is not called
HookArg(r, m) == IF m.exc = "none" /\ ~IsNone(m.res) THEN m.res ELSE NoneArr

\* vecs = self.raw_ndarray, then the hook if vecs is not None; the hook of
\* the concrete indexer is taken to return the array as its index
get_query_handler ==
    \E partial \in Partials :
        LET r == LoadGzip(partial)
            m == Reconcile(r) IN
        /\ op' = "get_query_handler" /\ exc' = m.exc /\ cause' = m.cause /\ log' = m.log
        /\ vecs' = r.res
        /\ hook_arg' = HookArg(r, m)
        /\ result' = hook_arg'
        /\ int2ext_key' = m.keys
        /\ UNCHANGED <<num_dim, dtype, key_bytes, key_dtype, _size, disk, ghost>>

\* -------------------------------------------------------- specification
Next ==
    \/ get_add_handler
    \/ get_create_handler
    \/ close
    \/ \E keys \in KeyInputs(_size), vectors \in Rank2Inputs(Len(hist.shape)) : add(keys, vectors)
    \/ \E vectors \in OtherRankInputs(0) : add(MkArray(<<1>>, "uint8", _size), vectors)
    \/ load
    \/ raw_ndarray
    \/ get_query_handler

Spec == Init /\ [][Next]_vars

TypeOK ==
    /\ num_dim \in {<<>>, <<0>>} \cup {<<d>> : d \in Dims}
    /\ dtype \in DTypes \cup {"None"}
    /\ key_dtype \in DTypes \cup {"None"}
    /\ _size \in Nat
    /\ write_handler \in {"closed", "open"}
    /\ exc \in {"none", "ValueError", "TypeError"}

\* ------------------------------------------------- what the claims speak of
RECURSIVE SumRows(_)
SumRows(shapes) == IF shapes = <<>> THEN 0 ELSE Head(shapes)[1] + SumRows(Tail(shapes))

Closed == write_handler = "closed"

\* one width, one element type and one key type over all the batches added
Uniform ==
    /\ hist.shape # <<>>
    /\ Cardinality(hist.dims) = 1
    /\ Cardinality(hist.dtypes) = 1
    /\ Cardinality(hist.kdtypes) = 1

\* V and K of the batches added, as arrays
AppendedV == [shape |-> <<SumRows(hist.shape), CHOOSE d \in hist.dims : TRUE>>,
              dtype |-> CHOOSE t \in hist.dtypes : TRUE,
              data  |-> hist.vecs]

AppendedK == [shape |-> <<Len(hist.keys)>>,
              dtype |-> CHOOSE t \in hist.kdtypes : TRUE,
              data  |-> hist.keys]

\* a store written by this instance alone, V of N rows with K of N keys, closed
WrittenAndClosed ==
    /\ Closed
    /\ pure
    /\ Uniform
    /\ Len(hist.keys) = SumRows(hist.shape)

\* C1: after V (N x D, type T) and K (N keys) were appended and the write
\* session closed, raw_ndarray returns V row for row and int2ext_key is K.
C1_RoundTrip ==
    (op = "raw_ndarray" /\ WrittenAndClosed)
        => (result = AppendedV /\ int2ext_key = AppendedK)

\* The round trip of C1 for a store that holds at least one row of width >= 1.
RoundTripOfNonEmptyStore ==
    (op = "raw_ndarray" /\ WrittenAndClosed
        /\ SumRows(hist.shape) > 0 /\ hist.dims # {0})
        => (result = AppendedV /\ int2ext_key = AppendedK)

RoundTripReached ==
    /\ op = "raw_ndarray" /\ WrittenAndClosed
    /\ Len(hist.shape) = 2 /\ SumRows(hist.shape) = 2 /\ hist.dims = {2}
    /\ result = AppendedV

\* C2: after successful adds of one width, element type and key type and the
\* close of the write session, raw_ndarray returns an array whose row count is
\* the sum of vectors.shape[0] over the calls.
C2_RowCountIsSum ==
    (op = "raw_ndarray" /\ Closed /\ pure /\ Uniform)
        => (~IsNone(result) /\ Shape0(result) = SumRows(hist.shape))

\* C3: an add whose keys.shape[0] differs from vectors.shape[0] raises, in
\* every state of the store, the first add included.
C3_KeyCountMismatchFails ==
    [][\A keys \in KeyInputs(_size), vectors \in Rank2Inputs(Len(hist.shape)) :
          (Shape0(keys) # Shape0(vectors) /\ add(keys, vectors)) => exc' # "none"]_vars

\* C4: once an add has set num_dim = D, every later add of a batch with
\* shape[1] # D raises the dimension mismatch and leaves num_dim, dtype,
\* key_dtype, key_bytes, _size and the output stream as they were.
C4_DimMismatchFails ==
    [][\A keys \in KeyInputs(_size), vectors \in Rank2Inputs(Len(hist.shape)) :
          (num_dim # <<>> /\ Shape1(vectors) # num_dim[1] /\ add(keys, vectors))
              => /\ exc' = "ValueError" /\ cause' = "dim"
                 /\ UNCHANGED <<num_dim, dtype, key_dtype, key_bytes, _size, pending,
                                file_data>>]_vars

\* C5: once an add has set dtype, every later add of a batch with another
\* element type raises, whatever its width and whatever num_dim is.
C5_DtypeMismatchFails ==
    [][\A keys \in KeyInputs(_size), vectors \in Rank2Inputs(Len(hist.shape)) :
          (dtype # "None" /\ vectors.dtype # dtype /\ add(keys, vectors))
              => exc' # "none"]_vars

\* C6: an add that raises, for any of its five checks, changes none of
\* num_dim, dtype, key_dtype, key_bytes, _size, and writes nothing to the
\* output stream or the file.
C6_FailedAddIsAtomic ==
    [][(op' = "add" /\ exc' # "none")
          => UNCHANGED <<num_dim, dtype, key_dtype, key_bytes, _size, int2ext_key,
                         pending, file_data, file_exists, write_handler>>]_vars

C6_FailedAddReached ==
    /\ op = "add" /\ exc = "TypeError" /\ cause = "key_dtype"
    /\ pending # <<>> /\ key_bytes # <<>>

\* C7: num_dim, dtype and key_dtype are each set once, by the first successful
\* add, and never change afterwards; key_bytes and _size never shrink.
C7_SchemaSetOnce ==
    [][/\ (num_dim = <<>>) = (hist.shape = <<>>)
       /\ (dtype = "None") = (hist.shape = <<>>)
       /\ (key_dtype = "None") = (hist.shape = <<>>)
       /\ num_dim # <<>> => num_dim' = num_dim
       /\ dtype # "None" => dtype' = dtype
       /\ key_dtype # "None" => key_dtype' = key_dtype
       /\ Len(key_bytes') >= Len(key_bytes)
       /\ _size' >= _size]_vars

\* C8: whenever the write session is closed, the keys in key_bytes, _size and
\* the rows of the file are the same number:
\* len(key_bytes)/sizeof(key_dtype) = _size = file bytes/(num_dim*sizeof(dtype)).
C8_CountsAgreeWhenClosed ==
    (Closed /\ pure /\ hist.shape # <<>>)
        => /\ Len(key_bytes) = _size * ItemSize(key_dtype)
           /\ Len(file_data) = _size * num_dim[1] * ItemSize(dtype)

\* the file cannot be read as rows of num_dim elements of dtype
Corrupt ==
    /\ file_exists /\ Truthy(num_dim) /\ dtype # "None"
    /\ Len(file_data) % (num_dim[1] * ItemSize(dtype)) # 0

\* C9: _load_gzip and raw_ndarray never raise: on a file whose length is not a
\* multiple of num_dim*sizeof(dtype), or whose stream is truncated, they return
\* None and log an error.
C9_LoadNeverRaises ==
    (op \in {"load", "raw_ndarray"})
        => /\ exc = "none"
           /\ Corrupt => (IsNone(result) /\ "error: broken" \in log)

\* C10: raw_ndarray returns None whenever the key table and the loaded array
\* differ in length, though _load_gzip returned a rank-2 array; an array it
\* returns has as many rows as int2ext_key has keys.
C10_MismatchGivesNone ==
    (op = "raw_ndarray")
        => /\ (~IsNone(vecs) /\ ~IsNone(int2ext_key) /\ exc = "none"
                  /\ Shape0(int2ext_key) # Shape0(vecs))
              => (IsNone(result) /\ Ndim(vecs) = 2)
           /\ ~IsNone(result)
              => (~IsNone(int2ext_key) /\ Shape0(result) = Shape0(int2ext_key))

C10_MismatchReached ==
    /\ op = "raw_ndarray" /\ exc = "none"
    /\ ~IsNone(vecs) /\ Ndim(vecs) = 2 /\ Shape0(vecs) > 0
    /\ ~IsNone(int2ext_key) /\ Shape0(int2ext_key) # Shape0(vecs)
    /\ IsNone(result)

\* ------------------------------------- what holds once num_dim is non-zero
\* The checks of C3, C4 and C5 do reject the batch once num_dim is set to a
\* width >= 1.
ChecksRejectOnceWidthSet ==
    [][\A keys \in KeyInputs(_size), vectors \in Rank2Inputs(Len(hist.shape)) :
          (Truthy(num_dim) /\ add(keys, vectors)
              /\ (\/ Shape1(vectors) # num_dim[1]
                  \/ vectors.dtype # dtype
                  \/ Shape0(keys) # Shape0(vectors)))
              => /\ exc' # "none"
                 /\ Shape1(vectors) # num_dim[1] => (exc' = "ValueError" /\ cause' = "dim")
                 /\ UNCHANGED <<num_dim, dtype, key_dtype, key_bytes, _size, pending,
                                file_data>>]_vars

\* The schema of C7 never changes once num_dim is set to a width >= 1, and
\* key_bytes and _size never shrink.
SchemaFixedOnceWidthSet ==
    [][/\ Truthy(num_dim) => (num_dim' = num_dim /\ dtype' = dtype /\ key_dtype' = key_dtype)
       /\ Len(key_bytes') >= Len(key_bytes)
       /\ _size' >= _size]_vars

\* The counts of C8 agree on a closed file written by this instance alone with
\* batches of one width and one key type, each with as many keys as rows.
CountsAgreeForMatchedBatches ==
    (Closed /\ pure /\ Uniform /\ \A i \in 1..Len(hist.shape) : hist.shape[i][1] = hist.shape[i][2])
        => /\ Len(key_bytes) = _size * ItemSize(key_dtype)
           /\ Len(file_data) = _size * num_dim[1] * ItemSize(dtype)

\* The loads of C9 raise nothing on a file written by this instance alone
\* while the keys are of one type.
LoadNeverRaisesOnOwnFile ==
    (op \in {"load", "raw_ndarray"} /\ pure /\ Cardinality(hist.kdtypes) <= 1) => exc = "none"

\* ------------------------------------------------------------------ C11
\* raw_ndarray of the last call came back None: nothing loaded, no key table,
\* or a key table of another length than the rows
MaterializeEmpty ==
    \/ exc # "none"
    \/ IsNone(vecs)
    \/ IsNone(int2ext_key)
    \/ Shape0(int2ext_key) # Shape0(vecs)

\* C11: get_query_handler gives build_advanced_index only an array that
\* raw_ndarray returned: of rank 2, of width num_dim and with as many rows as
\* int2ext_key has keys; whenever raw_ndarray comes back None the handler
\* returns None and the hook is not called.
C11_HookOnlyOnMaterialized ==
    op = "get_query_handler" =>
        /\ ~IsNone(hook_arg) =>
              /\ exc = "none"
              /\ Ndim(hook_arg) = 2
              /\ num_dim = <<Shape1(hook_arg)>>
              /\ ~IsNone(int2ext_key)
              /\ Shape0(hook_arg) = Shape0(int2ext_key)
              /\ hook_arg = vecs
        /\ MaterializeEmpty => IsNone(hook_arg) /\ IsNone(result)

C11_HookCalled ==
    /\ op = "get_query_handler"
    /\ ~IsNone(hook_arg)
    /\ Shape0(hook_arg) >= 1

C11_HookSkippedOnMismatch ==
    /\ op = "get_query_handler"
    /\ ~IsNone(vecs)
    /\ ~IsNone(int2ext_key)
    /\ IsNone(hook_arg)

\* ------------------------------------------------------------------ C12
\* C12: with no file at index_abspath, _load_gzip and raw_ndarray return None
\* and raise nothing; the call logs the one warning and changes no field of
\* the store and nothing on the disk.
C12_MissingFileGivesNone ==
    [][(~file_exists /\ op' \in {"load", "raw_ndarray"}) =>
          /\ IsNone(result')
          /\ exc' = "none"
          /\ log' = {"warning: not found"}
          /\ UNCHANGED <<store, disk>>]_vars

C12_MissingFileRead ==
    /\ ~file_exists
    /\ op = "raw_ndarray"
    /\ IsNone(result)
    /\ "warning: not found" \in log

\* ------------------------------------------------------------------ C17
\* C17: with a file at index_abspath and num_dim or dtype still None,
\* _load_gzip does not read the file: it and raw_ndarray return None whatever
\* the file holds, raise nothing, log nothing and change no field of the store.
C17_UnsetSchemaGivesNone ==
    [][(file_exists /\ (num_dim = <<>> \/ dtype = "None")
            /\ op' \in {"load", "raw_ndarray"}) =>
          /\ IsNone(result')
          /\ exc' = "none"
          /\ log' = {}
          /\ UNCHANGED <<store, disk>>]_vars

C17_UnsetSchemaRead ==
    /\ file_exists
    /\ file_data # <<>>
    /\ num_dim = <<>>
    /\ op = "raw_ndarray"
    /\ IsNone(result)

\* ------------------------------------------------------------------ C13
\* C13: the exception type of a rejected add identifies the check that
\* rejected it: two rejections by different checks (rank, dimension, element
\* type, key count, key type) never carry the same exception type.
C13_TypeIdentifiesCheck ==
    [][(/\ op = "add" /\ exc # "none"
        /\ op' = "add" /\ exc' # "none"
        /\ cause # cause') => exc # exc']_vars

\* C13, as the code has it: a rejected add raises ValueError for the rank,
\* dimension and key-count checks and TypeError for the element-type and
\* key-type checks; the type tells the two groups apart and nothing more.
C13_TypeIdentifiesGroup ==
    (op = "add" /\ exc # "none") =>
        /\ cause \in {"rank", "dim", "count"} => exc = "ValueError"
        /\ cause \in {"dtype", "key_dtype"} => exc = "TypeError"
        /\ cause \in {"rank", "dim", "count", "dtype", "key_dtype"}

C13_KeyTypeRejected ==
    /\ op = "add"
    /\ cause = "key_dtype"
    /\ exc = "TypeError"

\* ------------------------------------------------------------------ C14
\* the first check a batch fails in the order dimension, element type, key
\* count, key type, against the shape and types the store was given
EarliestViolated(keys, vectors) ==
    IF num_dim # <<Shape1(vectors)>> THEN "dim"
    ELSE IF dtype # vectors.dtype THEN "dtype"
    ELSE IF Shape0(keys) # Shape0(vectors) THEN "count"
    ELSE IF key_dtype # keys.dtype THEN "key_dtype"
    ELSE "none"

\* C14: add checks in a fixed order: vectors of another rank than 2 are
\* rejected for their rank in every state of the store; after a first
\* successful add, a batch is rejected by the first check it fails in the
\* order dimension, element type, key count, key type.
C14_ChecksInOrder ==
    [][/\ \A vectors \in OtherRankInputs(0) :
              add(MkArray(<<1>>, "uint8", _size), vectors) => cause' = "rank"
       /\ \A keys \in KeyInputs(_size), vectors \in Rank2Inputs(Len(hist.shape)) :
              (hist.shape # <<>> /\ add(keys, vectors)) =>
                  cause' = EarliestViolated(keys, vectors)]_vars

\* the order of the checks holds wherever the width of the store is not 0
ChecksInOrderOnceWidthSet ==
    [][/\ \A vectors \in OtherRankInputs(0) :
              add(MkArray(<<1>>, "uint8", _size), vectors) => cause' = "rank"
       /\ \A keys \in KeyInputs(_size), vectors \in Rank2Inputs(Len(hist.shape)) :
              (Truthy(num_dim) /\ add(keys, vectors)) =>
                  cause' = EarliestViolated(keys, vectors)]_vars

\* ------------------------------------------------------------------ C15
\* C15: when _load_gzip returns an array of zero rows for a store that was
\* given no key (a file, a shape, only batches of no row), raw_ndarray logs
\* the warning of an empty index and returns that array, not None.
C15_ZeroRowsGiveArray ==
    (/\ op = "raw_ndarray" /\ exc = "none"
     /\ ~IsNone(vecs) /\ Shape0(vecs) = 0
     /\ key_bytes = <<>>) =>
        /\ result = vecs
        /\ "warning: empty" \in log

\* no call logs the warning of an empty index: lines 118-120 are unreachable
EmptyWarningNeverLogged == "warning: empty" \notin log

\* a raw_ndarray that loaded zero rows returns None
ZeroRowsGiveNone ==
    (op = "raw_ndarray" /\ ~IsNone(vecs) /\ Shape0(vecs) = 0) => IsNone(result)

\* ------------------------------------------------------------------ C16
\* C16: a raw_ndarray whose _load_gzip returned an array, called with
\* key_bytes non-empty and key_dtype set, leaves in int2ext_key exactly the
\* keys added so far, in order, also when it then returns None for a count
\* mismatch; a raw_ndarray whose _load_gzip returned None leaves int2ext_key
\* as it was.
C16_KeyTableReplaced ==
    [][op' = "raw_ndarray" =>
          /\ (~IsNone(vecs') /\ key_bytes # <<>> /\ key_dtype # "None") =>
                /\ ~IsNone(int2ext_key')
                /\ int2ext_key'.data = hist.keys
                /\ int2ext_key'.dtype = key_dtype
          /\ IsNone(vecs') => int2ext_key' = int2ext_key]_vars

\* the key table is replaced as C16 has it when every batch had the key type
\* of the first
KeyTableReplacedForOneKeyType ==
    [][(op' = "raw_ndarray" /\ Cardinality(hist.kdtypes) <= 1) =>
          /\ (~IsNone(vecs') /\ key_bytes # <<>> /\ key_dtype # "None") =>
                /\ ~IsNone(int2ext_key')
                /\ int2ext_key'.data = hist.keys
                /\ int2ext_key'.dtype = key_dtype
          /\ IsNone(vecs') => int2ext_key' = int2ext_key]_vars

KeyTableReplacedOnMismatch ==
    /\ op = "raw_ndarray"
    /\ ~IsNone(vecs) /\ IsNone(result)
    /\ ~IsNone(int2ext_key) /\ int2ext_key.data = hist.keys
    /\ Shape0(int2ext_key) # Shape0(vecs)

\* ------------------------------------------------------------------ C18
\* <<b, p>>: position p of the b-th successful add
Positions(b, n) == [p \in 1..n |-> <<b, p>>]

\* where the rows of the file come from, in order: a batch of width 0 writes
\* no byte and so no row
RECURSIVE RowSrc(_, _)
RowSrc(shapes, b) ==
    IF b > Len(shapes) THEN <<>>
    ELSE (IF shapes[b][3] >= 1 THEN Positions(b, shapes[b][1]) ELSE <<>>)
            \o RowSrc(shapes, b + 1)

\* where the keys of key_bytes come from, in order
RECURSIVE KeySrc(_, _)
KeySrc(shapes, b) ==
    IF b > Len(shapes) THEN <<>>
    ELSE Positions(b, shapes[b][2]) \o KeySrc(shapes, b + 1)

\* C18: whenever raw_ndarray returns an array over a file that this store
\* alone has written, int2ext_key holds the keys added and, for every row i,
\* the key at i was given in the same add call and at the same position as
\* the vector of row i.
C18_RowsPairedWithTheirKeys ==
    (op = "raw_ndarray" /\ ~IsNone(result) /\ pure) =>
        /\ int2ext_key.data = hist.keys
        /\ \A i \in 1..Shape0(result) :
              /\ i <= Len(RowSrc(hist.shape, 1))
              /\ i <= Len(KeySrc(hist.shape, 1))
              /\ RowSrc(hist.shape, 1)[i] = KeySrc(hist.shape, 1)[i]

\* the pairing holds for stores whose batches all had width >= 1, as many
\* keys as rows and one key type
RowsPairedForMatchedBatches ==
    (/\ op = "raw_ndarray" /\ ~IsNone(result) /\ pure
     /\ Cardinality(hist.kdtypes) <= 1
     /\ \A b \in 1..Len(hist.shape) :
           hist.shape[b][3] >= 1 /\ hist.shape[b][1] = hist.shape[b][2]) =>
        /\ int2ext_key.data = hist.keys
        /\ \A i \in 1..Shape0(result) :
              /\ i <= Len(RowSrc(hist.shape, 1))
              /\ i <= Len(KeySrc(hist.shape, 1))
              /\ RowSrc(hist.shape, 1)[i] = KeySrc(hist.shape, 1)[i]

RowsPairedReached ==
    /\ op = "raw_ndarray" /\ ~IsNone(result) /\ pure
    /\ Shape0(result) = 2
    /\ Len(hist.shape) = 2
    /\ RowSrc(hist.shape, 1) = KeySrc(hist.shape, 1)

====
